---- MODULE Spec2Model ----
(***************************************************************************)
(* A model of the Excel clean-up tool: the upload step (home.py), the      *)
(* search / deletion-queue workspace (workspace.py, utils.py) and the book *)
(* classifier (segregation.py).                                            *)
(*                                                                         *)
(* Text is modelled by TLA+ strings.  A cell of a sheet or of a DataFrame  *)
(* is a string; the empty string is the empty cell (pandas reads it as     *)
(* NaN).  Positions are 0-based as in pandas; TLA+ sequences are 1-based,  *)
(* so the row at position p of a table t is t[p + 1].                      *)
(***************************************************************************)
EXTENDS Integers, Sequences, FiniteSets, TLC

VARIABLES
    current_page,        \* st.session_state.current_page
    uploaded_file,       \* st.session_state.uploaded_file: None or Some(sheet)
    df_original,         \* st.session_state.df_original:   None or Some(table)
    deletion_queue,      \* st.session_state.deletion_queue: a set of positions
    current_matches,     \* st.session_state.current_matches: a sorted list
    search_text,         \* the value of the text_input "search_input_workspace"
    processed_df,        \* st.session_state.processed_df: None or Some(table)
    processed_file_data, \* st.session_state.processed_file_data: None or Some(sheet)
    show_modal,          \* st.session_state.show_modal
    seg_input,           \* the table handed to BookCategoryClassifier.segregate
    seg_output,          \* None, or Some(what the last call of segregate gave)
    seg_previous,        \* None, or Some(what the call before the last gave)
    export_indices    \* the list handed to process_excel_with_formatting

vars == <<current_page, uploaded_file, df_original, deletion_queue,
          current_matches, search_text, processed_df, processed_file_data,
          show_modal, seg_input, seg_output, seg_previous, export_indices>>

\* The variables of the session, and those of a call of the classifier.
session_vars == <<current_page, uploaded_file, df_original, deletion_queue,
                  current_matches, search_text, processed_df,
                  processed_file_data, show_modal>>
seg_vars == <<seg_input, seg_output, seg_previous>>

\* The variables of the calls that are looked at on their own.
call_vars == <<seg_vars, export_indices>>

-----------------------------------------------------------------------------
(* Bounds of the model.                                                    *)

\* The largest number of data rows (below the header row) of an uploaded sheet.
MaxRows == 3

-----------------------------------------------------------------------------
(* Optional values: Python's None and a present value.                     *)

None == <<>>
Some(v) == <<v>>
Get(o) == o[1]

-----------------------------------------------------------------------------
(* The journal reports handed to the classifier.                          *)

\* The columns of a journal report: the heading in the file, and the part
\* of a journal line the column holds.
FullLayout ==
    << [name |-> "Journal ID", field |-> "id"],
       [name |-> "Date", field |-> "date"],
       [name |-> "Account", field |-> "account"],
       [name |-> "Debit", field |-> "debit"],
       [name |-> "Credit", field |-> "credit"],
       [name |-> "Narration", field |-> "narration"] >>

\* The same report with other headings of the alias lists.
AliasLayout ==
    << [name |-> " journal no ", field |-> "id"],
       [name |-> "DATE", field |-> "date"],
       [name |-> "Account Title", field |-> "account"],
       [name |-> "DR", field |-> "debit"],
       [name |-> "Cr", field |-> "credit"],
       [name |-> "Memo", field |-> "narration"] >>

JournalLine(id, date, account, debit, credit, narration) ==
    [id |-> id, date |-> date, account |-> account,
     debit |-> debit, credit |-> credit, narration |-> narration]

\* The journal lines a table may hold.
SegRows ==
    { JournalLine("J1", "2025-04-02", "RCBC - Checking", "50", "", "Deposit"),
      JournalLine("", "2025-04-01", "Westpac Savings", "", "100", ""),
      JournalLine("J2", "2025-04-03", "Accounts Payable", "70", "", "Reversal of Invoice 100"),
      JournalLine("", "", "", "", "", ""),
      JournalLine("", "2025-04-05 - MANUAL", "Rent", "20", "", ""),
      JournalLine("Total", "Total", "", "50", "50", ""),
      JournalLine("J3", "2025-03-31", "Depreciation", "10", "", ""),
      JournalLine("", "Payment ID 7", "", "", "", "") }

-----------------------------------------------------------------------------
(* Strings.                                                                *)

\* The i-th character of s, as a string of length 1.
CharAt(s, i) == SubSeq(s, i, i)

\* The lower-case letter of each upper-case letter.
LowerOf ==
    [A |-> "a", B |-> "b", C |-> "c", D |-> "d", E |-> "e", F |-> "f",
     G |-> "g", H |-> "h", I |-> "i", J |-> "j", K |-> "k", L |-> "l",
     M |-> "m", N |-> "n", O |-> "o", P |-> "p", Q |-> "q", R |-> "r",
     S |-> "s", T |-> "t", U |-> "u", V |-> "v", W |-> "w", X |-> "x",
     Y |-> "y", Z |-> "z"]

\* str.lower() on one character.
LowerChar(c) == IF c \in DOMAIN LowerOf THEN LowerOf[c] ELSE c

\* str.lower(), one character after the other.
RECURSIVE LowerText(_)
LowerText(s) == IF s = "" THEN "" ELSE LowerChar(Head(s)) \o LowerText(Tail(s))

\* The texts of the cells and of the headings of the journal reports, and
\* the text of an empty cell.
ReportTexts ==
    UNION {{line[f] : f \in DOMAIN line} : line \in SegRows}
        \cup {FullLayout[c].name : c \in DOMAIN FullLayout}
        \cup {AliasLayout[c].name : c \in DOMAIN AliasLayout}
        \cup {"nan"}

\* str.lower() of each text of the reports, worked out once.
LowerOfText == [s \in ReportTexts |-> LowerText(s)]

\* str.lower()
Lower(s) == IF s \in ReportTexts THEN LowerOfText[s] ELSE LowerText(s)

\* Python's `sub in s`: sub occurs in s as a literal substring.
Contains(s, sub) ==
    \E i \in 1..(Len(s) - Len(sub) + 1) : SubSeq(s, i, i + Len(sub) - 1) = sub

\* re.search(pat, s) for a pattern made of literal characters and of ".",
\* which matches any one character.
RegexSearch(pat, s) ==
    \E i \in 1..(Len(s) - Len(pat) + 1) :
        \A k \in 1..Len(pat) :
            \/ CharAt(pat, k) = "."
            \/ CharAt(pat, k) = CharAt(s, i + k - 1)

\* DataFrame.astype(str) / str(value) on a cell: NaN becomes "nan".
AsStr(cell) == IF cell = "" THEN "nan" ELSE cell

-----------------------------------------------------------------------------
(* Sequences and sorting.                                                  *)

Range(s) == {s[i] : i \in 1..Len(s)}

Min(S) == CHOOSE x \in S : \A y \in S : x <= y
Max(S) == CHOOSE x \in S : \A y \in S : x >= y

\* sorted(list(S)) for a set of integers.
RECURSIVE SortedList(_)
SortedList(S) ==
    IF S = {} THEN <<>> ELSE <<Min(S)>> \o SortedList(S \ {Min(S)})

\* The one value of a singleton set.
Eval(S) == CHOOSE v \in S : TRUE

\* The index of a largest element of a non-empty list.
ArgMax(l) == CHOOSE i \in 1..Len(l) : \A j \in 1..Len(l) : l[i] >= l[j]

RemoveAt(l, i) == SubSeq(l, 1, i - 1) \o SubSeq(l, i + 1, Len(l))

\* The list left in the order it has.
KeepOrder(l) == l

\* list.sort(reverse=True)
RECURSIVE SortReverse(_)
SortReverse(l) ==
    IF l = <<>> THEN <<>>
    ELSE <<l[ArgMax(l)]>> \o SortReverse(RemoveAt(l, ArgMax(l)))

RECURSIVE SelectRows(_, _)
\* The rows r of table t with keepIdx[r.idx], in order: df[mask].
SelectRows(t, keep) ==
    IF t = <<>> THEN <<>>
    ELSE (IF Head(t).idx \in keep THEN <<Head(t)>> ELSE <<>>)
         \o SelectRows(Tail(t), keep)

Labels(t) == {t[i].idx : i \in 1..Len(t)}

\* DataFrame.drop(labels, errors='ignore')
Drop(t, labels) == SelectRows(t, Labels(t) \ Range(labels))

-----------------------------------------------------------------------------
(* The uploaded workbook and the upload step (home.py).                    *)
(* A sheet is a list of sheet rows [row, cells]; `row` is the row's number *)
(* in the uploaded file (1-based), which a row keeps when other rows are   *)
(* deleted.  A table (DataFrame) is a list of rows [idx, src, cells]: idx  *)
(* is the pandas index label, src the number of the sheet row the row was  *)
(* read from (history, pandas does not keep it).                           *)

\* raw_df.iloc[4]: the position of the header row in the raw frame.
HeaderRowIdx == 4

\* The report's title block above the header, and the header row.  The second
\* column has no heading.
Preamble ==
    << <<"BMG Outsourcing Inc", "">>, <<"Journal Report", "">>,
       <<"April 2025", "">>, <<"", "">> >>

HeaderCells == <<"Item", "">>

\* The data rows a sheet may hold.
DataRows ==
    { <<"Apple", "">>,
      <<"apple", "INV.1 Inv-1">>,
      <<"", "Sub Total">>,
      <<"TOTAL", "Inv.1">> }

RECURSIVE SeqsUpTo(_, _)
\* The lists of at most n elements of S.
SeqsUpTo(S, n) ==
    IF n = 0 THEN {<<>>}
    ELSE SeqsUpTo(S, n - 1)
         \cup {Append(l, x) : l \in {m \in SeqsUpTo(S, n - 1) : Len(m) = n - 1}, x \in S}

Sheet(cellRows) == [i \in 1..Len(cellRows) |-> [row |-> i, cells |-> cellRows[i]]]

\* The files a user may upload: a report with up to MaxRows data rows, and a
\* file too short to hold the header row.
Files ==
    {Sheet(Preamble \o <<HeaderCells>> \o d) : d \in SeqsUpTo(DataRows, MaxRows)}
    \cup {Sheet(SubSeq(Preamble, 1, 3))}

\* pd.read_excel(header=None): raw position i holds sheet row i + 1.
\* raw_df.iloc[4:].reset_index(drop=True): the rows from raw position 4 on,
\* relabelled 0, 1, ...
RawSlice(sheet) ==
    [p \in 1..(Len(sheet) - HeaderRowIdx) |->
        [idx |-> p - 1,
         src |-> sheet[p + HeaderRowIdx].row,
         cells |-> sheet[p + HeaderRowIdx].cells]]

\* df.dropna(axis=1, how="all"): the columns with a non-empty cell in some row.
KeptColumns(t) ==
    IF t = <<>> THEN {}
    ELSE {c \in 1..Len(t[1].cells) : \E i \in 1..Len(t) : t[i].cells[c] # ""}

RECURSIVE Project(_, _)
\* The cells of the columns of `cols`, in column order.
Project(cells, cols) ==
    IF cells = <<>> THEN <<>>
    ELSE Project(SubSeq(cells, 1, Len(cells) - 1), cols)
         \o (IF Len(cells) \in cols THEN <<cells[Len(cells)]>> ELSE <<>>)

\* The table the upload step stores in df_original.
LoadTable(sheet) ==
    LET raw == RawSlice(sheet)
    IN  [p \in 1..Len(raw) |->
            [idx |-> raw[p].idx, src |-> raw[p].src,
             cells |-> Project(raw[p].cells, KeptColumns(raw))]]

\* raw_df.iloc[4] raises IndexError on a sheet with fewer than five rows.
Loadable(sheet) == Len(sheet) > HeaderRowIdx

-----------------------------------------------------------------------------
(* The search (utils.get_rows_to_delete_logic).                            *)

\* Step 1, the mask: some cell of the row, as a string, matches the search
\* term (Series.str.contains with case=True and its default regex=True).
RowMatches(r, search_term) ==
    \E c \in 1..Len(r.cells) : RegexSearch(search_term, AsStr(r.cells[c]))

\* matched_indices = df[mask].index.tolist()
matched_indices(df, search_term) ==
    {r.idx : r \in {x \in Range(df) : RowMatches(x, search_term)}}

\* "total" in str(next_row.values).lower()
RowHasTotal(r) ==
    \E c \in 1..Len(r.cells) : Contains(Lower(AsStr(r.cells[c])), "total")

\* TotalRows with the "total" test made case-sensitive on "Total".
TotalRowsCaseSensitive(df, matched) ==
    {idx + 1 : idx \in {i \in matched :
        /\ i + 1 < Len(df)
        /\ \E c \in 1..Len(df[i + 2].cells) : Contains(AsStr(df[i + 2].cells[c]), "Total")}}

\* TotalRows that goes on from an added total row to the row after it.
TotalRowsChained(df, matched) ==
    LET first == {idx + 1 : idx \in {i \in matched :
                      i + 1 < Len(df) /\ RowHasTotal(df[i + 2])}}
    IN  first \cup {idx + 1 : idx \in {i \in first :
                      i + 1 < Len(df) /\ RowHasTotal(df[i + 2])}}

\* Step 2: the rows right after a matched row that hold "total".
TotalRows(df, matched) ==
    {idx + 1 : idx \in {i \in matched : i + 1 < Len(df) /\ RowHasTotal(df[i + 2])}}

get_rows_to_delete_logic(df, search_term) ==
    IF search_term = "" THEN <<>>
    ELSE LET m == matched_indices(df, search_term)
         IN  SortedList(m \cup TotalRows(df, m))

-----------------------------------------------------------------------------
(* The cleaned-file export (utils.process_excel_with_formatting).          *)

\* pandas_index + 2
ExcelRowOffset == 2

\* worksheet.delete_rows(row_number): the rows below move up by one.
delete_rows(ws, row_number) ==
    IF row_number \in 1..Len(ws) THEN RemoveAt(ws, row_number) ELSE ws

RECURSIVE DeleteEach(_, _)
\* for row_number in excel_rows_to_delete: worksheet.delete_rows(row_number)
DeleteEach(ws, rows) ==
    IF rows = <<>> THEN ws
    ELSE DeleteEach(delete_rows(ws, Head(rows)), Tail(rows))

process_excel_with_formatting(file, indices_to_delete) ==
    LET excel_rows_to_delete ==
            [i \in 1..Len(indices_to_delete) |-> indices_to_delete[i] + ExcelRowOffset]
    IN  DeleteEach(file, SortReverse(excel_rows_to_delete))

-----------------------------------------------------------------------------
(* The session (config.py, home.py, workspace.py, segregation.py).         *)
(* Streamlit runs the page script to its end on every user action; an      *)
(* action below is the user's input together with the script run (and the  *)
(* run that st.rerun() starts) that follows it.                            *)

\* The texts a user may type in the search box.
Queries == {"", "Apple", "Inv.1", "Total"}

\* AppConfig.get_default_session_state(); show_modal is set on the first
\* run of the workspace page and read nowhere before.
SessionInit ==
    /\ current_page = "home"
    /\ uploaded_file = None
    /\ df_original = None
    /\ deletion_queue = {}
    /\ current_matches = <<>>
    /\ search_text = ""
    /\ processed_df = None
    /\ processed_file_data = None
    /\ show_modal = FALSE
    /\ export_indices = <<>>

\* The start of a session; no table has been handed to the classifier.
Init ==
    /\ SessionInit
    /\ seg_input = [columns |-> <<>>, rows |-> <<>>]
    /\ seg_output = None
    /\ seg_previous = None

\* SearchSection without the two tests for an empty search text.
SearchSectionUnguarded(df, text) ==
    SortedList(matched_indices(df, text) \cup TotalRows(df, matched_indices(df, text)))

\* workspace.py 449-454: the search section of a run of the workspace page.
SearchSection(df, text) ==
    IF text # "" THEN get_rows_to_delete_logic(df, text) ELSE <<>>

\* workspace.py 536-576: the download section of a run of the workspace page,
\* which builds the cleaned file and the cleaned table whenever the queue is
\* not empty.  `queue` is the queue at that point of the run.
DownloadSection(queue) ==
    LET queue_list == SortedList(queue)
    IN  IF queue_list # <<>>
        THEN /\ processed_file_data' =
                    Some(process_excel_with_formatting(Get(uploaded_file), queue_list))
             /\ processed_df' = Some(Drop(Get(df_original), queue_list))
        ELSE UNCHANGED <<processed_file_data, processed_df>>

\* home.py 157-187: a file is chosen in the uploader.
Upload(file) ==
    /\ UNCHANGED call_vars
    /\ current_page = "home"
    /\ uploaded_file' = Some(file)
    /\ df_original' = IF Loadable(file) THEN Some(LoadTable(file)) ELSE df_original
    /\ UNCHANGED <<current_page, deletion_queue, current_matches, search_text,
                   processed_df, processed_file_data, show_modal>>

\* home.py 189-191: "Proceed", shown once the file has been loaded; the
\* workspace page then runs with an empty search box.
Proceed ==
    /\ UNCHANGED call_vars
    /\ current_page = "home"
    /\ uploaded_file # None /\ Loadable(Get(uploaded_file))
    /\ current_page' = "workspace"
    /\ search_text' = ""
    /\ current_matches' = SearchSection(Get(df_original), "")
    /\ DownloadSection(deletion_queue)
    /\ UNCHANGED <<uploaded_file, df_original, deletion_queue, show_modal>>

\* Search that also puts the matches in the queue.
SearchQueuesMatches(text) ==
    /\ UNCHANGED call_vars
    /\ current_page = "workspace"
    /\ search_text' = text
    /\ current_matches' = SearchSection(Get(df_original), text)
    /\ deletion_queue' = deletion_queue \cup Range(current_matches')
    /\ DownloadSection(deletion_queue')
    /\ UNCHANGED <<current_page, uploaded_file, df_original, show_modal>>

\* workspace.py 417-454: the user types `text` in the search box.
Search(text) ==
    /\ UNCHANGED call_vars
    /\ current_page = "workspace"
    /\ search_text' = text
    /\ current_matches' = SearchSection(Get(df_original), text)
    /\ DownloadSection(deletion_queue)
    /\ UNCHANGED <<current_page, uploaded_file, df_original, deletion_queue,
                   show_modal>>

\* workspace.py 459-467: "Add n rows to deletion queue".  The run of the click
\* computes the matches of the text in the box, adds them, empties the match
\* list and reruns; in the rerun the box still holds the text, or is empty
\* again when the text came from a suggestion (selected_suggestion is reset).
AddToQueue ==
    /\ UNCHANGED call_vars
    /\ current_page = "workspace"
    /\ Len(SearchSection(Get(df_original), search_text)) > 0
    /\ deletion_queue' =
           deletion_queue \cup Range(SearchSection(Get(df_original), search_text))
    /\ search_text' \in {search_text, ""}
    /\ current_matches' = SearchSection(Get(df_original), search_text')
    /\ DownloadSection(deletion_queue')
    /\ UNCHANGED <<current_page, uploaded_file, df_original, show_modal>>

\* workspace.py 522-524: "Clear All from Queue".
ClearQueue ==
    /\ UNCHANGED call_vars
    /\ current_page = "workspace"
    /\ deletion_queue # {}
    /\ deletion_queue' = {}
    /\ current_matches' = SearchSection(Get(df_original), search_text)
    /\ DownloadSection(deletion_queue')
    /\ UNCHANGED <<current_page, uploaded_file, df_original, search_text, show_modal>>

\* workspace.py 578-586: "Download Cleaned Excel File"; on_click opens the
\* dialog.
Download ==
    /\ UNCHANGED call_vars
    /\ current_page = "workspace"
    /\ deletion_queue # {}
    /\ show_modal' = TRUE
    /\ current_matches' = SearchSection(Get(df_original), search_text)
    /\ DownloadSection(deletion_queue)
    /\ UNCHANGED <<current_page, uploaded_file, df_original, deletion_queue,
                   search_text>>

\* go_to_segregation that hands the whole loaded table on.
go_to_segregation_whole_table ==
    /\ processed_df' = Some(Get(df_original))
    /\ current_page' = "segregation"
    /\ search_text' = ""
    /\ UNCHANGED <<uploaded_file, df_original, deletion_queue, current_matches,
                   processed_file_data>>

\* go_to_segregation that hands on the cleaned table the session holds, when
\* it holds one.
go_to_segregation_cached ==
    /\ processed_df' =
           IF processed_df # None THEN processed_df
           ELSE IF SortedList(deletion_queue) # <<>>
           THEN Some(Drop(Get(df_original), SortedList(deletion_queue)))
           ELSE Some(Get(df_original))
    /\ current_page' = "segregation"
    /\ search_text' = ""
    /\ UNCHANGED <<uploaded_file, df_original, deletion_queue, current_matches,
                   processed_file_data>>

\* workspace.py 46-60
go_to_segregation ==
    /\ processed_df' =
           IF SortedList(deletion_queue) # <<>>
           THEN Some(Drop(Get(df_original), SortedList(deletion_queue)))
           ELSE Some(Get(df_original))
    /\ current_page' = "segregation"
    /\ search_text' = ""
    /\ UNCHANGED <<uploaded_file, df_original, deletion_queue, current_matches,
                   processed_file_data>>

\* workspace.py 385-386: "Book Segregation".
DirectSegregation ==
    /\ UNCHANGED call_vars
    /\ current_page = "workspace"
    /\ go_to_segregation
    /\ UNCHANGED show_modal

\* workspace.py 100-102: "Segregate Data" in the dialog.
ModalSegregate ==
    /\ UNCHANGED call_vars
    /\ current_page = "workspace"
    /\ show_modal
    /\ show_modal' = FALSE
    /\ go_to_segregation

\* workspace.py 105-107: "Done" in the dialog.
ModalDone ==
    /\ UNCHANGED call_vars
    /\ current_page = "workspace"
    /\ show_modal
    /\ show_modal' = FALSE
    /\ current_matches' = SearchSection(Get(df_original), search_text)
    /\ DownloadSection(deletion_queue)
    /\ UNCHANGED <<current_page, uploaded_file, df_original, deletion_queue,
                   search_text>>

\* segregation.py 240-243 and 479-480: "Back to Workspace".
go_back_to_workspace ==
    /\ UNCHANGED call_vars
    /\ current_page = "segregation"
    /\ current_page' = "workspace"
    /\ search_text' = ""
    /\ current_matches' = SearchSection(Get(df_original), "")
    /\ DownloadSection(deletion_queue)
    /\ UNCHANGED <<uploaded_file, df_original, deletion_queue, show_modal>>

\* go_to_home that leaves the deletion queue as it is.
go_to_home_keeps_queue ==
    /\ UNCHANGED call_vars
    /\ current_page \in {"workspace", "segregation"}
    /\ current_page' = "home"
    /\ df_original' = None
    /\ current_matches' = <<>>
    /\ uploaded_file' = None
    /\ search_text' = ""
    /\ processed_df' = None
    /\ processed_file_data' = None
    /\ UNCHANGED <<deletion_queue, show_modal>>

\* go_to_home that leaves the cleaned table and the cleaned file cached.
go_to_home_keeps_cleaned ==
    /\ UNCHANGED call_vars
    /\ current_page \in {"workspace", "segregation"}
    /\ current_page' = "home"
    /\ df_original' = None
    /\ deletion_queue' = {}
    /\ current_matches' = <<>>
    /\ uploaded_file' = None
    /\ search_text' = ""
    /\ UNCHANGED <<processed_df, processed_file_data, show_modal>>

\* workspace.py 29-43: return to the start page.
go_to_home ==
    /\ UNCHANGED call_vars
    /\ current_page \in {"workspace", "segregation"}
    /\ current_page' = "home"
    /\ df_original' = None
    /\ deletion_queue' = {}
    /\ current_matches' = <<>>
    /\ uploaded_file' = None
    /\ search_text' = ""
    /\ processed_df' = None
    /\ processed_file_data' = None
    /\ UNCHANGED show_modal

Next ==
    \/ \E file \in Files : Upload(file)
    \/ Proceed
    \/ \E text \in Queries : Search(text)
    \/ AddToQueue
    \/ ClearQueue
    \/ Download
    \/ DirectSegregation
    \/ ModalSegregate
    \/ ModalDone
    \/ go_back_to_workspace
    \/ go_to_home

Spec == Init /\ [][Next]_vars

-----------------------------------------------------------------------------
(* More text operations, used by the classifier.                           *)

IsSpace(c) == c = " "
IsDigit(c) == c \in {"0", "1", "2", "3", "4", "5", "6", "7", "8", "9"}

RECURSIVE LStrip(_)
LStrip(s) == IF s # "" /\ IsSpace(Head(s)) THEN LStrip(Tail(s)) ELSE s

RECURSIVE RStrip(_)
RStrip(s) ==
    IF s # "" /\ IsSpace(CharAt(s, Len(s)))
    THEN RStrip(SubSeq(s, 1, Len(s) - 1)) ELSE s

\* str.strip()
Strip(s) == LStrip(RStrip(s))

StartsWith(s, prefix) == Len(s) >= Len(prefix) /\ SubSeq(s, 1, Len(prefix)) = prefix
EndsWith(s, suffix) ==
    Len(s) >= Len(suffix) /\ SubSeq(s, Len(s) - Len(suffix) + 1, Len(s)) = suffix

DigitValue(c) ==
    CASE c = "0" -> 0 [] c = "1" -> 1 [] c = "2" -> 2 [] c = "3" -> 3 [] c = "4" -> 4
      [] c = "5" -> 5 [] c = "6" -> 6 [] c = "7" -> 7 [] c = "8" -> 8 [] c = "9" -> 9

AllDigits(s) == s # "" /\ \A i \in 1..Len(s) : IsDigit(CharAt(s, i))

RECURSIVE DecimalValue(_)
\* The number a string of digits writes.
DecimalValue(s) ==
    IF s = "" THEN 0
    ELSE 10 * DecimalValue(SubSeq(s, 1, Len(s) - 1)) + DigitValue(CharAt(s, Len(s)))

\* The characters of the texts below, in code-point order.
CodePointOrder ==
    " -./0123456789:ABCDEFGHIJKLMNOPQRSTUVWXYZabcdefghijklmnopqrstuvwxyz"

CodePoint(c) == CHOOSE i \in 1..Len(CodePointOrder) : CharAt(CodePointOrder, i) = c

RECURSIVE StrLess(_, _)
\* Python's a < b on strings.
StrLess(a, b) ==
    IF b = "" THEN FALSE
    ELSE IF a = "" THEN TRUE
    ELSE IF Head(a) = Head(b) THEN StrLess(Tail(a), Tail(b))
    ELSE CodePoint(Head(a)) < CodePoint(Head(b))

-----------------------------------------------------------------------------
(* The book classifier (segregation.BookCategoryClassifier).               *)
(* A table is [columns, rows]; a row is [idx, orig, cells] with one cell   *)
(* per column.  idx is the pandas index label; orig is the label the row   *)
(* had in the table handed to segregate (history: concat(ignore_index)     *)
(* renumbers idx), -1 for a spacer row.  A number in a cell is written as  *)
(* its decimal text.                                                       *)

\* pd.NA / NaN in a cell.
NA == ""

\* The value of a missing datetime.
NaT == -1

BookNames == {"Cash Disbursement", "Cash Receipts", "General Journal"}

\* c.lower().strip() for each column heading c.
RECURSIVE NormalizedNames(_)
NormalizedNames(columns) ==
    IF columns = <<>> THEN <<>>
    ELSE <<Strip(Lower(Head(columns)))>> \o NormalizedNames(Tail(columns))

\* cand.lower() for each candidate.
RECURSIVE LowerAll(_)
LowerAll(candidates) ==
    IF candidates = <<>> THEN <<>>
    ELSE <<Lower(Head(candidates))>> \o LowerAll(Tail(candidates))

\* The first candidate that is a key of cols, as the index of its column;
\* 0 for None.  Of two columns with the same key the dict keeps the later.
ColumnNamed(cols, cands) ==
    LET named(k) == {c \in 1..Len(cols) : cols[c] = cands[k]}
        hits == {k \in 1..Len(cands) : named(k) # {}}
    IN  IF hits = {} THEN 0 ELSE Max(named(Min(hits)))

\* The index of the column a candidate list names, 0 for None.
_get_column_name(columns, candidates) ==
    CHOOSE found \in {ColumnNamed(cols, cands) :
                         cols \in {NormalizedNames(columns)},
                         cands \in {LowerAll(candidates)}} : TRUE

\* str.contains(r"(reversal of|reversed)", case=False) on a cell.
IsReversalText(cell) ==
    \/ Contains(Lower(AsStr(cell)), "reversal of")
    \/ Contains(Lower(AsStr(cell)), "reversed")

\* The rows of rows whose position is in keep, in order.
KeepAt(rows, keep) ==
    LET F[i \in 0..Len(rows)] ==
            IF i = 0 THEN <<>>
            ELSE F[i - 1] \o (IF i \in keep THEN <<rows[i]>> ELSE <<>>)
    IN  F[Len(rows)]

clean_reversals(t) ==
    LET target_cols == {_get_column_name(t.columns, <<"narration">>),
                        _get_column_name(t.columns, <<"description">>)} \ {0}
        mask == {i \in 1..Len(t.rows) :
                    \E c \in target_cols : IsReversalText(t.rows[i].cells[c])}
    IN  IF target_cols = {} THEN t
        ELSE [t EXCEPT !.rows = KeepAt(t.rows, (1..Len(t.rows)) \ mask)]

\* A fill that leaves every value as it is.
no_fill(values) == values

\* Series.ffill(): each NA takes the nearest non-NA value before it.
ffill(values) ==
    LET F[i \in 0..Len(values)] ==
            IF i = 0 THEN <<>>
            ELSE Append(F[i - 1],
                        IF values[i] # NA \/ i = 1 THEN values[i] ELSE F[i - 1][i - 1])
    IN  F[Len(values)]

\* The digits of the leftmost "ID <digits>" of a text, any letter case, with
\* one or more blanks between; NA when there is none.
\* str.extract(r'(?i)ID\s+(\d+)')
ExtractId(text) ==
    LET low == Lower(text)
        n == Len(text)
        \* the first position at or after i that holds no blank
        pastBlanks(i) == Min({j \in i..(n + 1) : j = n + 1 \/ ~IsSpace(CharAt(text, j))})
        \* the first position at or after i that holds no digit
        pastDigits(i) == Min({j \in i..(n + 1) : j = n + 1 \/ ~IsDigit(CharAt(text, j))})
        starts == {i \in 1..(n - 1) :
                      /\ SubSeq(low, i, i + 1) = "id"
                      /\ pastBlanks(i + 2) > i + 2
                      /\ pastDigits(pastBlanks(i + 2)) > pastBlanks(i + 2)}
    IN  IF starts = {} THEN NA
        ELSE SubSeq(text, pastBlanks(Min(starts) + 2),
                    pastDigits(pastBlanks(Min(starts) + 2)) - 1)

\* The identifier column left as it is.
KeepColumnIds(ids, dates) == ids

\* The identifier column after lines 91-100: the identifier read from the
\* date text, forward-filled, where there is one; else the column's value.
OverwriteIds(ids, dates) ==
    LET overwritten(extracted_ids) ==
            IF \A i \in 1..Len(dates) : extracted_ids[i] = NA THEN ids
            ELSE [i \in 1..Len(ids) |->
                     IF extracted_ids[i] # NA THEN extracted_ids[i] ELSE ids[i]]
    IN  Eval({overwritten(extracted_ids) :
                 extracted_ids \in {ffill([i \in 1..Len(dates) |-> ExtractId(AsStr(dates[i]))])}})

\* replace(r"^(total|grand total|nan|none|\s*)$", pd.NA) on a stripped text.
IsBlankId(text) == text \in {"total", "grand total", "nan", "none", ""}

\* Lines 104-108: strip and blank out.
NormalizeIds(ids) ==
    [i \in 1..Len(ids) |->
        IF IsBlankId(Strip(AsStr(ids[i]))) THEN NA ELSE Strip(AsStr(ids[i]))]

\* Lines 104-110: strip, blank out, forward-fill.
CleanIds(ids) == ffill(NormalizeIds(ids))

\* pd.to_numeric(errors="coerce").fillna(0) on a cell holding digits or text.
ToNumber(cell) == IF AllDigits(cell) THEN DecimalValue(cell) ELSE 0

\* is_blank on a cell.
is_blank(cell) == cell = NA \/ Lower(Strip(AsStr(cell))) \in {"", "nan", "none"}

ContainsAny(text, words) == \E w \in words : Contains(text, w)

\* str.contains(r"-\s*manual\s*$", case=False) on the date text.
IsManualText(text) ==
    LET t == RStrip(Lower(text))
    IN  /\ EndsWith(t, "manual")
        /\ EndsWith(RStrip(SubSeq(t, 1, Len(t) - 6)), "-")

\* assign_book that tests the disbursement flag of the group first.
assign_book_disburse_first(is_manual, grp_receipt, grp_disburse) ==
    IF is_manual THEN "General Journal"
    ELSE IF grp_disburse THEN "Cash Disbursement"
    ELSE IF grp_receipt THEN "Cash Receipts"
    ELSE "General Journal"

\* assign_book, lines 161-168.
assign_book(is_manual, grp_receipt, grp_disburse) ==
    IF is_manual THEN "General Journal"
    ELSE IF grp_receipt THEN "Cash Receipts"
    ELSE IF grp_disburse THEN "Cash Disbursement"
    ELSE "General Journal"

\* pd.to_datetime(errors='coerce') on a cell: the day of a "YYYY-MM-DD" text
\* as the number YYYYMMDD, NaT for any other text and for NaN.
ParseDate(cell) ==
    IF /\ Len(cell) = 10
       /\ CharAt(cell, 5) = "-" /\ CharAt(cell, 8) = "-"
       /\ AllDigits(SubSeq(cell, 1, 4))
       /\ AllDigits(SubSeq(cell, 6, 7))
       /\ AllDigits(SubSeq(cell, 9, 10))
    THEN DecimalValue(SubSeq(cell, 1, 4) \o SubSeq(cell, 6, 7) \o SubSeq(cell, 9, 10))
    ELSE NaT

\* str.contains(r'^(Total|None|Grand Total)', case=False) on the date text.
IsFooterText(text) ==
    \/ StartsWith(Lower(text), "total")
    \/ StartsWith(Lower(text), "none")
    \/ StartsWith(Lower(text), "grand total")

\* The order of sort_values(by=[group date, id, rank], na_position='last')
\* on the keys [gd, id, rank] of two rows.
KeyLess(a, b) ==
    \/ a.gd # NaT /\ (b.gd = NaT \/ a.gd < b.gd)
    \/ /\ a.gd = b.gd
       /\ \/ StrLess(a.id, b.id)
          \/ a.id = b.id /\ a.rank < b.rank

\* The rows left in the order of the table.
Unsorted(rows, keys) == rows

\* A stable sort of rows, keys[i] being the key of rows[i].
SortRowsBy(rows, keys) ==
    LET Insert(order, i) ==
            LET later == {j \in 1..Len(order) : KeyLess(keys[i], keys[order[j]])}
                at == IF later = {} THEN Len(order) + 1 ELSE Min(later)
            IN  SubSeq(order, 1, at - 1) \o <<i>> \o SubSeq(order, at, Len(order))
        F[i \in 0..Len(rows)] == IF i = 0 THEN <<>> ELSE Insert(F[i - 1], i)
    IN  [k \in 1..Len(rows) |-> rows[F[Len(rows)][k]]]

\* pd.concat(..., ignore_index=True): the rows relabelled 0, 1, ...
Renumber(rows) == [i \in 1..Len(rows) |-> [rows[i] EXCEPT !.idx = i - 1]]

\* InsertSpacers that leaves a blank row after the last group as well.
InsertSpacersAfterEach(sorted, id_col, ncols) ==
    LET blank_row == [idx |-> 0, orig |-> -1, cells |-> [c \in 1..ncols |-> NA]]
        firstOf(i) == \A j \in 1..(i - 1) : sorted[j].cells[id_col] # sorted[i].cells[id_col]
        group(i) == KeepAt(sorted, {j \in 1..Len(sorted) :
                                       sorted[j].cells[id_col] = sorted[i].cells[id_col]})
        G[k \in 0..Len(sorted)] ==
            IF k = 0 THEN <<>>
            ELSE IF firstOf(k) THEN G[k - 1] \o group(k) \o <<blank_row>>
            ELSE G[k - 1]
    IN  Renumber(G[Len(sorted)])

\* Lines 213-230: one blank row between the groups of consecutive
\* identifiers of the sorted rows, none after the last group.
InsertSpacers(sorted, id_col, ncols) ==
    LET blank_row == [idx |-> 0, orig |-> -1, cells |-> [c \in 1..ncols |-> NA]]
        firstOf(i) == \A j \in 1..(i - 1) : sorted[j].cells[id_col] # sorted[i].cells[id_col]
        \* unique_ids, as the positions where an identifier first appears
        unique == {i \in 1..Len(sorted) : firstOf(i)}
        group(i) == KeepAt(sorted, {j \in 1..Len(sorted) :
                                       sorted[j].cells[id_col] = sorted[i].cells[id_col]})
        G[k \in 0..Len(sorted)] ==
            IF k = 0 THEN <<>>
            ELSE IF k \in unique THEN G[k - 1] \o group(k) \o <<blank_row>>
            ELSE G[k - 1]
        sorted_groups == G[Len(sorted)]
    IN  Renumber(SubSeq(sorted_groups, 1, Len(sorted_groups) - 1))

\* Lines 184-232 for one book: the group date, the rank, the sort and the
\* spacer rows.  An empty book is left as it is.
SortBook(book, id_col, date_col, ncols) ==
    LET temp_sort_date(r) == ParseDate(r.cells[date_col])
        dates_of(id) == {temp_sort_date(x) : x \in {y \in Range(book) : y.cells[id_col] = id}}
                            \ {NaT}
        group_sort_date(r) ==
            IF dates_of(r.cells[id_col]) = {} THEN NaT ELSE Min(dates_of(r.cells[id_col]))
        row_rank(r) ==
            IF IsFooterText(AsStr(r.cells[date_col])) THEN 2
            ELSE IF temp_sort_date(r) # NaT THEN 1 ELSE 0
        keys == [i \in 1..Len(book) |->
                    [gd |-> group_sort_date(book[i]),
                     id |-> book[i].cells[id_col],
                     rank |-> row_rank(book[i])]]
    IN  IF book = <<>> THEN book
        ELSE Eval({InsertSpacers(sorted, id_col, ncols) :
                      sorted \in {SortRowsBy(book, ks) : ks \in {keys}}})

\* What segregate gives: the three books, or the exception it raises with
\* the text str(e) that the page shows (lines 622-626).
Returned(books) == [status |-> "ok", message |-> "", books |-> books]
Raised(exception, message) ==
    [status |-> exception, message |-> message,
     books |-> [b \in BookNames |-> <<>>]]

\* Lines 78-83: the columns the classifier works on, 0 for None.
Columns(columns) ==
    [id |-> _get_column_name(columns,
                <<"journal id", "journal no", "id", "transaction id">>),
     account |-> _get_column_name(columns,
                <<"account", "account title", "account code">>),
     debit |-> _get_column_name(columns, <<"debit", "dr">>),
     credit |-> _get_column_name(columns, <<"credit", "cr">>),
     narration |-> _get_column_name(columns,
                <<"narration", "description", "memo">>),
     date |-> _get_column_name(columns, <<"date">>)]

\* Lines 91-110: the identifier of each row, read from the date text where
\* there is a date column, then stripped, blanked and forward-filled.
GroupIds(rows, cols) ==
    LET column(c) == [i \in 1..Len(rows) |-> rows[i].cells[c]]
    IN  CleanIds(IF cols.date # 0
                 THEN OverwriteIds(column(cols.id), column(cols.date))
                 ELSE column(cols.id))

\* Lines 104-115: the identifier, debit and credit cells rewritten.
Rewrite(rows, cols) ==
    LET rewritten(ids) ==
            [i \in 1..Len(rows) |->
                [rows[i] EXCEPT
                    !.cells = [c \in 1..Len(rows[i].cells) |->
                        IF c = cols.id THEN ids[i]
                        ELSE IF c \in {cols.debit, cols.credit}
                             THEN ToString(ToNumber(rows[i].cells[c]))
                        ELSE rows[i].cells[c]]]]
    IN  Eval({rewritten(ids) : ids \in {GroupIds(rows, cols)}})

\* Line 111: dropna(subset=[id_col])
dropna(rows, col) == KeepAt(rows, {i \in 1..Len(rows) : rows[i].cells[col] # NA})

\* Lines 120-127: a row with no date, no account and no money.
mask_junk(r, cols) ==
    /\ is_blank(r.cells[cols.date])
    /\ is_blank(r.cells[cols.account])
    /\ ToNumber(r.cells[cols.debit]) = 0
    /\ ToNumber(r.cells[cols.credit]) = 0

\* Line 128: df[~mask_junk]
drop_junk(rows, cols) ==
    KeepAt(rows, {i \in 1..Len(rows) : ~mask_junk(rows[i], cols)})

\* Lines 131-135
acc_text(r, cols) == Lower(AsStr(r.cells[cols.account]))
narr_text(r, cols) ==
    IF cols.narration # 0 THEN Lower(AsStr(r.cells[cols.narration])) ELSE ""

\* Lines 138-142
is_bank(r, cols) ==
    \/ ContainsAny(acc_text(r, cols), {"rcbc", "westpac"})
    \/ ContainsAny(narr_text(r, cols), {"rcbc", "westpac"})
is_ap(r, cols) == ContainsAny(acc_text(r, cols), {"accounts payable", "trade creditors"})
is_ar(r, cols) == ContainsAny(acc_text(r, cols), {"trade debtors", "accounts receivable"})

\* Lines 145-146: the triggers of one row.
is_receipt(r, cols) ==
    \/ is_bank(r, cols) /\ ToNumber(r.cells[cols.debit]) > 0
    \/ is_ar(r, cols) /\ ToNumber(r.cells[cols.credit]) > 0
is_disburse(r, cols) ==
    \/ is_bank(r, cols) /\ ToNumber(r.cells[cols.credit]) > 0
    \/ is_ap(r, cols) /\ ToNumber(r.cells[cols.debit]) > 0

\* A trigger read from the row alone instead of from its group.
row_receipt(rows, r, cols) == is_receipt(r, cols)

\* The disbursement trigger read from the row alone instead of from its
\* group.
row_disburse(rows, r, cols) == is_disburse(r, cols)

\* Lines 149-150: groupby(id_col)[...].transform("any")
grp_receipt(rows, r, cols) ==
    \E x \in Range(rows) : x.cells[cols.id] = r.cells[cols.id] /\ is_receipt(x, cols)
grp_disburse(rows, r, cols) ==
    \E x \in Range(rows) : x.cells[cols.id] = r.cells[cols.id] /\ is_disburse(x, cols)

\* The manual flag read with the letter case of "- Manual" only.
is_manual_case_sensitive(r, cols) ==
    cols.date # 0 /\ EndsWith(RStrip(AsStr(r.cells[cols.date])), "- Manual")

\* Lines 153-158: the date text ends with "- Manual".
is_manual(r, cols) == cols.date # 0 /\ IsManualText(AsStr(r.cells[cols.date]))

\* Line 170: the book of each row.
Book(rows, r, cols) ==
    assign_book(is_manual(r, cols), grp_receipt(rows, r, cols), grp_disburse(rows, r, cols))

\* Lines 174-178: the rows of each book, in the order of the table.
results(rows, cols) ==
    [b \in BookNames |-> KeepAt(rows, {i \in 1..Len(rows) : Book(rows, rows[i], cols) = b})]

\* SortBooks that gives a key to the books that hold rows only.
SortBooksNonEmpty(books, cols, ncols) ==
    [b \in {x \in BookNames : books[x] # <<>>} |->
        SortBook(books[b], cols.id, cols.date, ncols)]

\* Lines 183-235: each book sorted and spaced.
SortBooks(books, cols, ncols) ==
    [b \in BookNames |-> SortBook(books[b], cols.id, cols.date, ncols)]

\* BookCategoryClassifier.segregate
segregate(t) ==
    LET df0 == clean_reversals(t)
        cols == Columns(df0.columns)
    IN  IF 0 \in {cols.id, cols.account, cols.debit, cols.credit}
        THEN Raised("ValueError", "Missing required columns")
        ELSE IF cols.date = 0
        THEN Raised("KeyError", "None")
        ELSE Returned(SortBooks(
                 results(drop_junk(dropna(Rewrite(df0.rows, cols), cols.id), cols), cols),
                 cols, Len(df0.columns)))

-----------------------------------------------------------------------------
(* Calls of the classifier on the tables of a journal report.              *)

\* The largest number of rows of a table handed to the classifier.
MaxSegRows == 3

WithoutField(layout, field) ==
    KeepAt(layout, {c \in 1..Len(layout) : layout[c].field # field})

Layouts ==
    {FullLayout, AliasLayout,
     WithoutField(FullLayout, "date"), WithoutField(FullLayout, "credit"),
     WithoutField(FullLayout, "narration")}

MakeTable(layout, lines) ==
    [columns |-> [c \in 1..Len(layout) |-> layout[c].name],
     rows |-> [i \in 1..Len(lines) |->
                  [idx |-> i - 1, orig |-> i - 1,
                   cells |-> [c \in 1..Len(layout) |-> lines[i][layout[c].field]]]]]

SegTables ==
    {MakeTable(layout, lines) :
        layout \in Layouts, lines \in SeqsUpTo(SegRows, MaxSegRows)}

SegInit ==
    /\ SessionInit
    /\ seg_input \in SegTables
    /\ seg_output = None
    /\ seg_previous = None

\* Segregate that works on the caller's table and leaves it without the
\* rows of the reversal filter.
SegregateInPlace ==
    /\ seg_output = None
    /\ seg_output' = Some(segregate(seg_input))
    /\ seg_input' = clean_reversals(seg_input)
    /\ UNCHANGED <<seg_previous, session_vars, export_indices>>

\* segregation.py 528-531: the classifier is called on the table, and works
\* on a copy of it (line 75).
Segregate ==
    /\ seg_output = None
    /\ seg_output' = Some(segregate(seg_input))
    /\ UNCHANGED <<seg_input, seg_previous, session_vars, export_indices>>

SegNext == Segregate

SpecSeg == SegInit /\ [][SegNext]_vars

\* The largest number of rows of a table the segregation page is run twice
\* on.
MaxTwiceRows == 2

TwiceInit ==
    /\ SessionInit
    /\ seg_input \in {MakeTable(layout, lines) :
                        layout \in Layouts, lines \in SeqsUpTo(SegRows, MaxTwiceRows)}
    /\ seg_output = None
    /\ seg_previous = None

\* segregation.py 528-531: the segregation page runs again on the same
\* session and calls a new classifier on the table.
Rerun ==
    /\ seg_output # None
    /\ seg_previous = None
    /\ seg_previous' = seg_output
    /\ seg_output' = Some(segregate(seg_input))
    /\ UNCHANGED <<seg_input, session_vars, export_indices>>

TwiceNext == Segregate \/ Rerun

SpecTwice == TwiceInit /\ [][TwiceNext]_vars

-----------------------------------------------------------------------------
(* Calls of process_excel_with_formatting on a list in any order.          *)

\* The lists of elements of S that hold no element twice, in any order.
Orderings(S) ==
    {l \in SeqsUpTo(S, Cardinality(S)) :
        \A i, j \in 1..Len(l) : i # j => l[i] # l[j]}

\* A loaded file and a list of positions of its table, in any order.
ExportInit ==
    /\ current_page = "workspace"
    /\ uploaded_file \in {Some(file) : file \in {f \in Files : Loadable(f)}}
    /\ df_original = Some(LoadTable(Get(uploaded_file)))
    /\ deletion_queue = {}
    /\ current_matches = <<>>
    /\ search_text = ""
    /\ processed_df = None
    /\ processed_file_data = None
    /\ show_modal = FALSE
    /\ seg_input = [columns |-> <<>>, rows |-> <<>>]
    /\ seg_output = None
    /\ seg_previous = None
    /\ export_indices \in
           UNION {Orderings(Q) : Q \in SUBSET (0..(Len(Get(df_original)) - 1))}

\* workspace.py 567-575: the cleaned file is built from the upload and the
\* list.
BuildCleanedFile ==
    /\ processed_file_data = None
    /\ processed_file_data' =
           Some(process_excel_with_formatting(Get(uploaded_file), export_indices))
    /\ UNCHANGED <<current_page, uploaded_file, df_original, deletion_queue,
                   current_matches, search_text, processed_df, show_modal,
                   call_vars>>

ExportNext == BuildCleanedFile

SpecExport == ExportInit /\ [][ExportNext]_vars

-----------------------------------------------------------------------------
(* Properties of the session.                                              *)

\* The loaded table; read only where df_original is present.
df == Get(df_original)

\* The workspace page has run with a search text in the box.
Searching == current_page = "workspace" /\ search_text # ""

\* The positions of the loaded table.
Positions == IF df_original = None THEN {} ELSE 0..(Len(df) - 1)

\* The raw match set S of the search in the box.
S == matched_indices(df, search_text)

\* Some cell of row r, as a string, holds q literally.
HoldsLiterally(r, q) == \E c \in 1..Len(r.cells) : Contains(AsStr(r.cells[c]), q)

\* Some cell of row r, as a string, holds q when letter case is ignored.
HoldsIgnoringCase(r, q) ==
    \E c \in 1..Len(r.cells) : Contains(Lower(AsStr(r.cells[c])), Lower(q))

\* C3: the cleaned file holds exactly the sheet rows of the upload other than
\* those the queued table rows were read from.
C3_ExportRemovesQueuedRows ==
    (current_page = "workspace" /\ deletion_queue # {}) =>
        {r.row : r \in Range(Get(processed_file_data))}
            = {r.row : r \in Range(Get(uploaded_file))}
                  \ {df[p + 1].src : p \in deletion_queue}

\* C4: a row is in the raw match set exactly when one of its cells, as a
\* string, holds the search text as a literal, case-sensitive substring.
C4_RawMatchIsLiteralSubstring ==
    Searching =>
        \A r \in Range(df) : (r.idx \in S) <=> HoldsLiterally(r, search_text)

\* C5: a row that holds the search text only in another letter case is not a
\* raw match; it is in the result only as the row right after a raw match and
\* holding "total".
C5_CaseSensitive ==
    Searching =>
        \A r \in Range(df) :
            (HoldsIgnoringCase(r, search_text) /\ ~HoldsLiterally(r, search_text)) =>
                /\ r.idx \notin S
                /\ r.idx \in Range(current_matches) =>
                       (r.idx - 1 \in S /\ RowHasTotal(r))

\* C6: the result holds only raw matches and rows right after a raw match
\* that hold "total"; no row two or more past every raw match.
C6_MatchMonotonicity ==
    Searching =>
        \A p \in Range(current_matches) :
            \/ p \in S
            \/ (p - 1 \in S /\ p \in Positions /\ RowHasTotal(df[p + 1]))

\* C6 witness: a total row was added after a raw match, and the total row
\* after it was not.
C6_Witness ==
    /\ Searching
    /\ \E p \in S :
          /\ p + 2 \in Positions
          /\ p + 1 \notin S /\ p + 1 \in Range(current_matches)
          /\ p + 2 \notin S /\ RowHasTotal(df[p + 3])
          /\ p + 2 \notin Range(current_matches)

\* C7: every raw match is in the result, with the row after it when that row
\* holds "total" in any letter case; the result is a strictly ascending list
\* of valid positions, also when the last row is a raw match.
C7_TotalRowExpansion ==
    Searching =>
        /\ \A p \in S :
              /\ p \in Range(current_matches)
              /\ (p + 1 \in Positions /\ RowHasTotal(df[p + 2])) =>
                     p + 1 \in Range(current_matches)
        /\ Range(current_matches) \subseteq Positions
        /\ \A i \in 1..(Len(current_matches) - 1) :
               current_matches[i] < current_matches[i + 1]

\* C7 witness: the last row is a raw match, and an upper-case "TOTAL" row
\* was added after another raw match.
C7_Witness ==
    /\ Searching
    /\ Len(df) - 1 \in S
    /\ \E p \in S :
          /\ p + 1 \in Positions /\ p + 1 \notin S
          /\ ~HoldsLiterally(df[p + 2], "Total")
          /\ p + 1 \in Range(current_matches)

\* C8: with an empty search text the match list is empty.
C8_EmptyQueryMatchesNothing ==
    (current_page = "workspace" /\ search_text = "") => current_matches = <<>>

\* C8 witness: the workspace shows a table with data rows, rows were queued
\* by earlier searches, and the search box is empty.
C8_Witness ==
    /\ current_page = "workspace" /\ search_text = ""
    /\ Len(df) > 1
    /\ deletion_queue # {}

\* C9: a search changes neither the table nor the queue, and only adding the
\* matches puts a position in the queue.
C9_SearchHasNoSideEffects ==
    [][ /\ (\E text \in Queries : Search(text)) =>
               (df_original' = df_original /\ deletion_queue' = deletion_queue)
        /\ (search_text' # search_text \/ current_matches' # current_matches) =>
               (deletion_queue' \subseteq deletion_queue \/ AddToQueue)
        /\ ~(deletion_queue' \subseteq deletion_queue) => AddToQueue ]_vars

\* C9 witness: with rows in the queue, a search has found rows that are not
\* in the queue.
C9_Witness ==
    /\ Searching
    /\ deletion_queue # {}
    /\ current_matches # <<>>
    /\ Range(current_matches) \cap deletion_queue = {}

\* The queue holds only positions of the loaded table.
QueueValid == deletion_queue \subseteq Positions

\* Adding matches that are all queued already leaves the queue as it is.
AddIsIdempotent ==
    (AddToQueue /\ Range(SearchSection(df, search_text)) \subseteq deletion_queue)
        => deletion_queue' = deletion_queue

\* C10: in every reachable state the queue is a set of positions of the
\* loaded table, and adding queued positions again changes nothing.
C10_QueueInvariant == []QueueValid /\ [][AddIsIdempotent]_vars

\* C10 witness: the matches on show are all in the queue already, so that
\* adding them again is possible.
C10_Witness ==
    /\ Searching
    /\ current_matches # <<>>
    /\ Range(current_matches) \subseteq deletion_queue
    /\ deletion_queue # Positions

\* workspace.py 536-540: the preview of the workspace page.
df_to_show == Drop(df, SortedList(deletion_queue))

\* segregation.py 483-487: the table the segregation page classifies.
working_df == IF processed_df # None THEN Get(processed_df) ELSE df

\* The final rows of the page on show.
FinalRows == IF current_page = "segregation" THEN working_df ELSE df_to_show

\* The rows of `final` are the rows of the loaded table at the positions
\* outside the queue, each once, in the order of the loaded table.
IsTableWithoutQueue(final) ==
    /\ \A i \in 1..Len(final) : \E j \in 1..Len(df) : final[i] = df[j]
    /\ {final[i].idx : i \in 1..Len(final)} = Positions \ deletion_queue
    /\ \A i, j \in 1..Len(final) : i < j => final[i].idx < final[j].idx

\* After a step that adds positions to the queue the preview holds none of
\* them.
AddExcludes ==
    \A p \in deletion_queue' \ deletion_queue :
        \A final \in {df_to_show'} :
            \A i \in 1..Len(final) : final[i].idx # p

\* C11: on the workspace page and on the segregation page the final rows
\* (the preview, the table handed to classification) are exactly the rows of
\* the loaded table whose positions are not in the deletion queue, in the
\* original order and with their original positions; a row just added to the
\* queue is not among them.
C11_FinalRowSet ==
    /\ [](current_page \in {"workspace", "segregation"}
            => \A final \in {FinalRows} : IsTableWithoutQueue(final))
    /\ [][AddExcludes]_vars

\* C11 witness: the segregation page classifies a table from which some but
\* not all rows were queued.
C11_Witness ==
    /\ current_page = "segregation"
    /\ deletion_queue # {}
    /\ deletion_queue # Positions
    /\ Len(working_df) < Len(df)

\* C12: on the workspace page every queued position p can be rescued: some
\* step takes p, and only p, out of the deletion queue.
C12_RescueOffered ==
    current_page = "workspace" =>
        \A p \in deletion_queue :
            ENABLED (Next /\ deletion_queue' = deletion_queue \ {p})

\* A step that returns to the start page leaves no table, no queued
\* position, no match, no cleaned table and no cleaned file.
ReturnResets ==
    (current_page # "home" /\ current_page' = "home") =>
        /\ df_original' = None
        /\ deletion_queue' = {}
        /\ current_matches' = <<>>
        /\ processed_df' = None
        /\ processed_file_data' = None

RowAt(p) == df[p + 1]

\* C22: whenever the segregation page classifies, the table it classifies
\* is the loaded table without the rows at the positions that are in the
\* deletion queue at that time, whatever cleaned table or cleaned file an
\* earlier run of the workspace page has left in the session.
C22_ClassifiesCurrentFinalRows ==
    current_page = "segregation" =>
        \A t \in {working_df} :
            /\ Len(t) = Cardinality(Positions \ deletion_queue)
            /\ \A i \in 1..Len(t) :
                   /\ t[i].idx \notin deletion_queue
                   /\ t[i] = RowAt(t[i].idx)
                   /\ \A j \in 1..(i - 1) : t[j].idx < t[i].idx

\* C22 witness: the segregation page classifies the whole table after the
\* queue was cleared, while the session still holds the cleaned file of the
\* queue as it was before.
C22_Witness ==
    /\ current_page = "segregation"
    /\ deletion_queue = {}
    /\ processed_file_data # None
    /\ Len(df) > 0

\* The numbers of the sheet rows of a file.
RowNumbers(file) == {file[i].row : i \in 1..Len(file)}

\* C28: for a list of positions in any order, the cleaned file lacks
\* exactly the sheet rows numbered p + 2 for the positions p of the list,
\* and holds the other rows of the upload as they were and in their order.
C28_BottomUpDeletion ==
    (processed_file_data # None /\ uploaded_file # None) =>
        \A file \in {Get(uploaded_file)} : \A out \in {Get(processed_file_data)} :
            /\ RowNumbers(file) \ RowNumbers(out) =
                   {p + 2 : p \in Range(export_indices)}
            /\ \A i \in 1..Len(out) : out[i] = file[out[i].row]
            /\ \A i, j \in 1..Len(out) : i < j => out[i].row < out[j].row

\* C28 witness: the cleaned file of a list of three positions that is
\* neither ascending nor descending.
C28_Witness ==
    /\ processed_file_data # None
    /\ Len(export_indices) = 3
    /\ export_indices[1] < export_indices[2]
    /\ export_indices[3] < export_indices[2]

-----------------------------------------------------------------------------
(* Properties of the classifier.                                           *)

\* The classifier was called, and what the call gave.
Called == seg_output # None
Out == Get(seg_output)

\* The columns of the table handed to the classifier; those of the headings
\* of each layout are worked out once.
LayoutColumns ==
    [columns \in {[c \in 1..Len(layout) |-> layout[c].name] : layout \in Layouts} |->
        Columns(columns)]
InCols ==
    IF seg_input.columns \in DOMAIN LayoutColumns
    THEN LayoutColumns[seg_input.columns]
    ELSE Columns(seg_input.columns)
HasRequiredColumns ==
    0 \notin {InCols.id, InCols.account, InCols.debit, InCols.credit}

\* The places of the books that hold the input row of position p.
PlacesOf(p) ==
    UNION {{<<b, k>> : k \in {j \in 1..Len(Out.books[b]) : Out.books[b][j].orig = p}} :
              b \in BookNames}

\* The input rows the reversal filter and the junk-row filter drop.
DroppedAsReversal(r) ==
    r.orig \notin {x.orig : x \in Range(clean_reversals(seg_input).rows)}
DroppedAsJunk(r) == InCols.date # 0 /\ mask_junk(r, InCols)

\* C1: for a table with the required columns, every input row is in exactly
\* one place of the three books, or is a row the reversal filter or the
\* junk-row filter dropped; no row is in two places.
C1_TotalAndExclusive ==
    (Called /\ HasRequiredColumns) =>
        \A r \in Range(seg_input.rows) :
            /\ Cardinality(PlacesOf(r.orig)) <= 1
            /\ \/ Cardinality(PlacesOf(r.orig)) = 1
               \/ DroppedAsReversal(r)
               \/ DroppedAsJunk(r)

\* The rows of the books that came from the input, each with its book,
\* its forward-filled identifier, its date text, whether that text ends in
\* "- Manual" and whether it has a receipt or a disbursement trigger of its
\* own.
OutRowsWith(cols) ==
    UNION {{[book |-> b, orig |-> r.orig, id |-> r.cells[cols.id],
             date |-> AsStr(r.cells[cols.date]),
             manual |-> is_manual(r, cols), receipt |-> is_receipt(r, cols),
             disburse |-> is_disburse(r, cols)] :
               r \in {x \in Range(Out.books[b]) : x.orig >= 0}} :
              b \in BookNames}
OutRows == UNION {OutRowsWith(cols) : cols \in {InCols}}

\* Two rows of the output carry the same forward-filled identifier.
SameGroup(x, y) == x.id = y.id

\* A row of the output whose date text ends in "- Manual".
IsManualRow(x) == x.manual

\* C2 as stated: any two rows of the output that carry the same
\* forward-filled identifier are in the same book, rows whose date text
\* ends in "- Manual" included.
C2_GroupNeverSplit ==
    Called => \A x, y \in OutRows : SameGroup(x, y) => x.book = y.book

\* C2 as amended: any two rows of the output that carry the same
\* forward-filled identifier and whose date texts do not end in "- Manual"
\* are in the same book; a row whose date text ends in "- Manual" is in
\* the General Journal.
C2_NonManualGroupNeverSplit ==
    Called =>
        /\ \A x, y \in OutRows :
               (SameGroup(x, y) /\ ~IsManualRow(x) /\ ~IsManualRow(y)) => x.book = y.book
        /\ \A x \in OutRows : IsManualRow(x) => x.book = "General Journal"

\* C2 witness: a group with two rows of one book, only one of which has a
\* trigger of that book, and a "- Manual" row in another book.
C2_Witness ==
    /\ Called
    /\ \E x, y, z \in OutRows :
           /\ x.orig # y.orig
           /\ SameGroup(x, y) /\ SameGroup(x, z)
           /\ ~IsManualRow(x) /\ ~IsManualRow(y) /\ IsManualRow(z)
           /\ x.book = "Cash Receipts" /\ y.book = "Cash Receipts"
           /\ x.receipt /\ ~y.receipt
           /\ z.book = "General Journal"

\* The required columns the table handed to the classifier lacks, and the
\* word that names each in an error message.
RequiredFields == {"id", "account", "debit", "credit"}
MissingFields == {f \in RequiredFields : InCols[f] = 0}
FieldWord == [id |-> "journal id", account |-> "account",
              debit |-> "debit", credit |-> "credit"]

\* C14: when the table lacks a required column, segregate raises an error
\* whose message names the missing columns and no other, and gives no book.
C14_MissingColumnIsNamed ==
    (Called /\ MissingFields # {}) =>
        /\ Out.status = "ValueError"
        /\ \A b \in BookNames : Out.books[b] = <<>>
        /\ \A f \in RequiredFields :
               Contains(Lower(Out.message), FieldWord[f]) <=> f \in MissingFields

\* C15: for a table with the four required columns but without a date
\* column, without a narration column or without both, segregate completes
\* without raising and gives the three books.
C15_OptionalColumnsDegrade ==
    (Called /\ MissingFields = {} /\ 0 \in {InCols.date, InCols.narration}) =>
        Out.status = "ok"

\* The row counts the summary statistics show (lines 540-560), added up.
BookRowCount ==
    Len(Out.books["Cash Disbursement"]) + Len(Out.books["Cash Receipts"])
        + Len(Out.books["General Journal"])

\* The number of input rows the reversal filter drops.
ReversalDropped == Len(seg_input.rows) - Len(clean_reversals(seg_input).rows)

\* C16: for a table with the required columns, the row counts of the three
\* books add up to the number of input rows minus the rows dropped by the
\* reversal filter.
C16_RowCountPreserved ==
    (Called /\ MissingFields = {}) =>
        BookRowCount = Len(seg_input.rows) - ReversalDropped

\* C17: when a group holds a row with a receipt trigger and a row with a
\* disbursement trigger, every row of the group whose date text does not end
\* in "- Manual" is in Cash Receipts, and so none is in Cash Disbursement.
C17_ReceiptBeforeDisburse ==
    Called =>
        \A x, y \in OutRows :
            (SameGroup(x, y) /\ x.receipt /\ y.disburse) =>
                \A z \in OutRows :
                    (SameGroup(x, z) /\ ~IsManualRow(z)) => z.book = "Cash Receipts"

\* C17 witness: a group of two rows, one with a receipt trigger only and one
\* with a disbursement trigger only, both in Cash Receipts.
C17_Witness ==
    /\ Called
    /\ \E x, y \in OutRows :
           /\ SameGroup(x, y)
           /\ x.receipt /\ ~x.disburse
           /\ y.disburse /\ ~y.receipt
           /\ ~IsManualRow(x) /\ ~IsManualRow(y)
           /\ x.book = "Cash Receipts" /\ y.book = "Cash Receipts"

\* The date text of a row of the output ends with "- Manual" in some letter
\* case.
EndsWithManual(x) == EndsWith(Lower(x.date), "- manual")

\* C18: a row whose date text ends with "- Manual", in any letter case, is
\* in the General Journal whatever the triggers of its group are.
C18_ManualOverride ==
    Called => \A x \in OutRows : EndsWithManual(x) => x.book = "General Journal"

\* C18 witness: a row whose date text ends with "- MANUAL" is in the General
\* Journal while a row of its group has a receipt trigger and is in Cash
\* Receipts.
C18_Witness ==
    /\ Called
    /\ \E x, y \in OutRows :
           /\ SameGroup(x, y)
           /\ EndsWithManual(x) /\ x.book = "General Journal"
           /\ y.receipt /\ y.book = "Cash Receipts"

\* The narration text of an input row: the cell of the column the classifier
\* reads as narration (line 82).
HasReversalNarration(r) ==
    InCols.narration # 0 /\ IsReversalText(r.cells[InCols.narration])

\* C19: every input row whose narration text contains "reversal of" or
\* "reversed", in any letter case, is in none of the three books.
C19_ReversalFilter ==
    Called =>
        \A r \in Range(seg_input.rows) :
            HasReversalNarration(r) => PlacesOf(r.orig) = {}

\* A call of the classifier leaves the table it was handed as it was.
InputUnchanged == (Segregate \/ Rerun) => seg_input' = seg_input

\* The classifier was called twice on the table.
CalledTwice == seg_previous # None

GroupHasReceipt(x) == \E y \in OutRows : SameGroup(x, y) /\ y.receipt
GroupHasDisburse(x) == \E y \in OutRows : SameGroup(x, y) /\ y.disburse

\* C23: every row whose date text does not end in "- Manual" is in Cash
\* Receipts iff some row of its group has a receipt trigger; otherwise in
\* Cash Disbursement iff some row of its group has a disbursement trigger;
\* otherwise in the General Journal.
C23_GroupLevelDecision ==
    Called =>
        \A x \in OutRows :
            ~IsManualRow(x) =>
                x.book = IF GroupHasReceipt(x) THEN "Cash Receipts"
                         ELSE IF GroupHasDisburse(x) THEN "Cash Disbursement"
                         ELSE "General Journal"

\* C23 witness: a row without a trigger of its own is in Cash Disbursement
\* because a later row of its group has a disbursement trigger, and a row of
\* another group is in the General Journal.
C23_Witness ==
    /\ Called
    /\ \E x, y, z \in OutRows :
           /\ SameGroup(x, y) /\ x.orig < y.orig
           /\ ~x.receipt /\ ~x.disburse /\ ~IsManualRow(x)
           /\ y.disburse
           /\ x.book = "Cash Disbursement"
           /\ ~SameGroup(x, z) /\ ~IsManualRow(z) /\ z.book = "General Journal"

\* The texts of a blank identifier.
BlankIdTexts == {"total", "grand total", "nan", "none", ""}

\* C24: an identifier whose trimmed text is "total", "grand total", "nan" or
\* "none" in any letter case, or only whitespace, is blank: no row of the
\* books carries it as the identifier of its group.
C24_BlankingIgnoresCase ==
    Called => \A x \in OutRows : Lower(Strip(x.id)) \notin BlankIdTexts

\* The rows that reach the identifier steps, and the identifier of each
\* after normalization and before the forward fill.
Kept == clean_reversals(seg_input).rows
NormalizedWith(rows, cols) ==
    LET column(c) == [i \in 1..Len(rows) |-> rows[i].cells[c]]
    IN  NormalizeIds(IF cols.date # 0
                     THEN OverwriteIds(column(cols.id), column(cols.date))
                     ELSE column(cols.id))
Normalized == Eval({NormalizedWith(rows, cols) : rows \in {Kept}, cols \in {InCols}})

\* The identifiers that the books show for the input row of position p.
IdsOf(p) == {Out.books[pl[1]][pl[2]].cells[InCols.id] : pl \in PlacesOf(p)}

\* The positions at or before i whose normalized identifier is not blank.
NonBlankUpTo(norm, i) == {j \in 1..i : norm[j] # NA}

\* C25: the call returns, and a row whose normalized identifier is blank
\* carries in the books the identifier of the nearest row before it whose
\* normalized identifier is not blank; when there is no such row it is in
\* no book.
C25_ForwardFill ==
    (Called /\ MissingFields = {} /\ InCols.date # 0) =>
        /\ Out.status = "ok"
        /\ \A rows \in {Kept} : \A norm \in {Normalized} :
               \A i \in 1..Len(rows) :
                   norm[i] = NA =>
                       IF NonBlankUpTo(norm, i) = {}
                       THEN PlacesOf(rows[i].orig) = {}
                       ELSE /\ IdsOf(rows[i].orig) \subseteq {norm[Max(NonBlankUpTo(norm, i))]}
                            /\ IdsOf(rows[i].orig) = {} => DroppedAsJunk(rows[i])

\* C25 witness: a table of three rows whose first row has a blank identifier
\* and is in no book, and whose third row has a blank identifier and is in a
\* book under the identifier of the second.
C25_Witness ==
    /\ Called
    /\ Out.status = "ok"
    /\ Len(Kept) = 3
    /\ Normalized[1] = NA /\ Normalized[2] # NA /\ Normalized[3] = NA
    /\ PlacesOf(Kept[1].orig) = {}
    /\ IdsOf(Kept[3].orig) = {Normalized[2]}

\* Row i of a book is fully blank; the identifier it shows.
IsSpacer(book, i) == \A c \in 1..Len(book[i].cells) : book[i].cells[c] = NA
IdAt(book, i) == book[i].cells[InCols.id]

\* The spacer rows of a book stand one between each two consecutive groups,
\* and the rows of one identifier stand together.
WellSpaced(book) ==
    LET spacers == {i \in 1..Len(book) : IsSpacer(book, i)}
        rows == (1..Len(book)) \ spacers
        groups == {IdAt(book, i) : i \in rows}
    IN  /\ Cardinality(spacers) = Cardinality(groups) - 1
        /\ 1 \notin spacers /\ Len(book) \notin spacers
        /\ \A i \in spacers :
               /\ {i - 1, i + 1} \subseteq rows
               /\ IdAt(book, i - 1) # IdAt(book, i + 1)
        /\ \A i \in rows : (i + 1) \in rows => IdAt(book, i) = IdAt(book, i + 1)
        /\ \A i, j \in rows :
               (i < j /\ IdAt(book, i) = IdAt(book, j)) =>
                   \A k \in i..j : k \in rows /\ IdAt(book, k) = IdAt(book, i)

\* C26: when a date column is present, every book with rows that holds g
\* groups holds exactly g - 1 fully blank rows, one between each two
\* consecutive groups, none first, none last and none inside a group, and
\* the rows of one identifier are contiguous.
C26_SpacerRows ==
    (Called /\ Out.status = "ok" /\ InCols.date # 0) =>
        \A b \in BookNames : \A book \in {Out.books[b]} :
            book # <<>> => WellSpaced(book)

\* C26 witness: a book that holds a group of two rows, a spacer and another
\* group.
C26_Witness ==
    /\ Called
    /\ Out.status = "ok"
    /\ \E b \in BookNames : \E book \in {Out.books[b]} :
           /\ Len(book) = 4
           /\ \E i \in 2..3 : IsSpacer(book, i)
           /\ WellSpaced(book)

\* For the data rows of a book: the parsed date of row i, the smallest
\* parsed date of the rows of its identifier in the book (NaT when none
\* parses), and its rank.
DateAt(book, i) == ParseDate(book[i].cells[InCols.date])
DataRowsOf(book) == {i \in 1..Len(book) : ~IsSpacer(book, i)}
GroupDate(book, i) ==
    LET dates == {DateAt(book, j) :
                     j \in {k \in DataRowsOf(book) : IdAt(book, k) = IdAt(book, i)}} \ {NaT}
    IN  IF dates = {} THEN NaT ELSE Min(dates)
RankAt(book, i) ==
    IF Lower(AsStr(book[i].cells[InCols.date])) \in {"total", "grand total", "none"} THEN 2
    ELSE IF DateAt(book, i) # NaT THEN 1
    ELSE 0

\* The group of row i does not come after the group of row j: its date is
\* earlier, or row j's group has no date, or the dates are the same and its
\* identifier is the smaller.
GroupBefore(book, i, j) ==
    \/ GroupDate(book, i) # NaT /\ GroupDate(book, j) = NaT
    \/ GroupDate(book, i) # NaT /\ GroupDate(book, i) < GroupDate(book, j)
    \/ GroupDate(book, i) = GroupDate(book, j) /\ StrLess(IdAt(book, i), IdAt(book, j))

Ordered(book) ==
    \A i, j \in DataRowsOf(book) :
        i < j =>
            IF IdAt(book, i) = IdAt(book, j)
            THEN RankAt(book, i) <= RankAt(book, j)
            ELSE GroupBefore(book, i, j)

\* C27: when a date column is present, in every book the groups stand in
\* ascending order of the smallest parsed date of the group, groups without
\* a date last and equal dates in the order of the identifiers, and inside a
\* group the rows stand in the order of their ranks: non-dated rows, dated
\* rows, footer rows.
C27_OutputOrdering ==
    (Called /\ Out.status = "ok" /\ InCols.date # 0) =>
        \A b \in BookNames : \A book \in {Out.books[b]} : Ordered(book)

\* C27 witness: a book in which a group with the earlier date stands before
\* a group with a later date that came first in the table.
C27_Witness ==
    /\ Called
    /\ Out.status = "ok"
    /\ \E b \in BookNames : \E book \in {Out.books[b]} :
           \E i, j \in DataRowsOf(book) :
               /\ i < j
               /\ GroupDate(book, i) # NaT /\ GroupDate(book, j) # NaT
               /\ GroupDate(book, i) < GroupDate(book, j)
               /\ book[i].orig > book[j].orig

\* The identifier of each row of the input table after normalization and
\* before the forward fill, the rows of the reversal filter included.
NormalizedInput ==
    Eval({NormalizedWith(rows, cols) : rows \in {seg_input.rows}, cols \in {InCols}})

\* C29: every row of the books whose normalized identifier is blank carries
\* the identifier of the nearest row before it in the input table whose
\* normalized identifier is not blank, also when the reversal filter has
\* removed that row.
C29_ReversalNeverMergesGroups ==
    (Called /\ Out.status = "ok") =>
        \A norm \in {NormalizedInput} :
            \A i \in 1..Len(seg_input.rows) :
                (norm[i] = NA /\ NonBlankUpTo(norm, i) # {}) =>
                    IdsOf(seg_input.rows[i].orig)
                        \subseteq {norm[Max(NonBlankUpTo(norm, i))]}

\* The identifier read from the date text of each row that reaches the
\* step, NA where the text holds none.
ExtractedWith(rows, cols) ==
    [i \in 1..Len(rows) |-> ExtractId(AsStr(rows[i].cells[cols.date]))]
Extracted == Eval({ExtractedWith(rows, cols) : rows \in {Kept}, cols \in {InCols}})

====
